---- MODULE Spec2Model ----
(***************************************************************************)
(* Room/session manager of the note-collab backend: the socket handlers   *)
(* of utils/socketHandlers.js over the registry helpers of                *)
(* utils/roomManager.js.  Strings are tuples of one-character strings, so *)
(* that validation and sanitisation are computed character by character.  *)
(* The transport (socket.io 4) is modelled by what the handlers use of    *)
(* it: every socket starts in the group named by its own id, join/leave   *)
(* edit the socket's groups, socket.emit reaches the socket itself,       *)
(* io.to(g) reaches the sockets grouped under g, and socket.to(g) reaches *)
(* those minus the sockets grouped under the sender's id.                 *)
(***************************************************************************)
EXTENDS Integers, Sequences, FiniteSets, TLC

\* ------------------------------------------------------------------ bounds
MaxConns == 3
MaxEvents == 3

\* ------------------------------------------------------- JavaScript values
Str(s) == [type |-> "string", chars |-> s]
Undefined == [type |-> "undefined", chars |-> <<>>]
Truthy(v) == v.type = "string" /\ v.chars # <<>>

Digits == <<"0", "1", "2", "3", "4", "5", "6", "7", "8", "9">>

RECURSIVE DecStr(_)
DecStr(n) == IF n < 10 THEN <<Digits[n + 1]>>
             ELSE DecStr(n \div 10) \o <<Digits[(n % 10) + 1]>>

\* ------------------------------------------------------------- connections
ConnId(i) == <<"c">> \o DecStr(i)
Conns == {ConnId(i) : i \in 1..MaxConns}

\* ------------------------------------------------------------ roomManager
USER_COLORS == <<"#FF6B6B", "#4ECDC4", "#45B7D1", "#FFA07A", "#98D8C8",
                 "#F7DC6F", "#BB8FCE", "#85C1E2", "#F8B739", "#52B788",
                 "#E76F51", "#2A9D8F">>

getUserColor(index) == USER_COLORS[(index % Len(USER_COLORS)) + 1]

RoomIdChars ==
  {"a", "b", "c", "d", "e", "f", "g", "h", "i", "j", "k", "l", "m",
   "n", "o", "p", "q", "r", "s", "t", "u", "v", "w", "x", "y", "z",
   "A", "B", "C", "D", "E", "F", "G", "H", "I", "J", "K", "L", "M",
   "N", "O", "P", "Q", "R", "S", "T", "U", "V", "W", "X", "Y", "Z",
   "0", "1", "2", "3", "4", "5", "6", "7", "8", "9", "-", "_"}

RoomIdLimit == 100

\* the length test off by one: a 100-character id passes
isValidRoomId_Inclusive(roomId) ==
  /\ roomId.type = "string"
  /\ Len(roomId.chars) > 0
  /\ Len(roomId.chars) <= RoomIdLimit
  /\ \A i \in 1..Len(roomId.chars) : roomId.chars[i] \in RoomIdChars

isValidRoomId(roomId) ==
  /\ roomId.type = "string"
  /\ Len(roomId.chars) > 0
  /\ Len(roomId.chars) < RoomIdLimit
  /\ \A i \in 1..Len(roomId.chars) : roomId.chars[i] \in RoomIdChars

WhiteSpace == {" ", "\t", "\n", "\r"}

RECURSIVE TrimStart(_)
TrimStart(s) == IF s # <<>> /\ Head(s) \in WhiteSpace THEN TrimStart(Tail(s)) ELSE s

RECURSIVE TrimEnd(_)
TrimEnd(s) == IF s # <<>> /\ s[Len(s)] \in WhiteSpace
              THEN TrimEnd(SubSeq(s, 1, Len(s) - 1)) ELSE s

Trim(s) == TrimEnd(TrimStart(s))

UsernameLimit == 50

Guest(now) == <<"G", "u", "e", "s", "t", "-">> \o DecStr(now)

NotAngle(ch) == ch \notin {"<", ">"}

sanitizeUsername(username, now) ==
  IF ~Truthy(username)
  THEN Guest(now)
  ELSE LET stripped == SelectSeq(username.chars, NotAngle)
           trimmed == Trim(stripped)
           sanitized == SubSeq(trimmed, 1,
                          IF Len(trimmed) < UsernameLimit THEN Len(trimmed) ELSE UsernameLimit)
       IN IF sanitized # <<>> THEN sanitized ELSE Guest(now)

\* ---------------------------------------- insertion-ordered Map (JS Map)
\* a Map is a sequence of [k, v] entries in insertion order
MapIndex(m, k) == CHOOSE i \in 1..Len(m) : m[i].k = k
MapHas(m, k) == \E i \in 1..Len(m) : m[i].k = k
MapGet(m, k) == m[MapIndex(m, k)].v
MapSet(m, k, v) ==
  IF MapHas(m, k)
  THEN [m EXCEPT ![MapIndex(m, k)] = [k |-> k, v |-> v]]
  ELSE Append(m, [k |-> k, v |-> v])
\* the deletion that drops the oldest entry instead of the entry of the key
MapDelete_Oldest(m, k) ==
  IF MapHas(m, k)
  THEN Tail(m)
  ELSE m

MapDelete(m, k) ==
  IF MapHas(m, k)
  THEN SubSeq(m, 1, MapIndex(m, k) - 1) \o SubSeq(m, MapIndex(m, k) + 1, Len(m))
  ELSE m
MapKeys(m) == [i \in 1..Len(m) |-> m[i].k]
MapValues(m) == [i \in 1..Len(m) |-> m[i].v]
MapSize(m) == Len(m)

\* the list that misses the entry inserted last
getRoomUsers_Stale(rs, roomId) ==
  IF ~MapHas(rs, roomId) THEN <<>>
  ELSE SubSeq(MapValues(MapGet(rs, roomId)), 1, MapSize(MapGet(rs, roomId)) - 1)

getRoomUsers(rs, roomId) ==
  IF ~MapHas(rs, roomId) THEN <<>> ELSE MapValues(MapGet(rs, roomId))

\* rooms.forEach of cleanupEmptyRooms over the entries `keys`: acc holds the two
\* maps and the array of the ids deleted so far
RECURSIVE CleanupEach(_, _)
CleanupEach(acc, keys) ==
  IF keys = <<>> THEN acc
  ELSE CleanupEach(
         IF MapHas(acc.rooms, Head(keys)) /\ MapSize(MapGet(acc.rooms, Head(keys))) = 0
         THEN [rooms |-> MapDelete(acc.rooms, Head(keys)),
               roomMetadata |-> MapDelete(acc.roomMetadata, Head(keys)),
               emptyRooms |-> Append(acc.emptyRooms, Head(keys))]
         ELSE acc,
         Tail(keys))

\* the sweep that forgets the metadata of the rooms it deletes
cleanupEmptyRooms_KeepMetadata(rs, md) ==
  [CleanupEach([rooms |-> rs, roomMetadata |-> md, emptyRooms |-> <<>>], MapKeys(rs))
     EXCEPT !.roomMetadata = md]

cleanupEmptyRooms(rs, md) ==
  CleanupEach([rooms |-> rs, roomMetadata |-> md, emptyRooms |-> <<>>], MapKeys(rs))

\* --------------------------------------------------------------- the state
VARIABLES
  status,        \* connection id -> "new" | "connected" | "disconnected"
  socketRooms,   \* connection id -> socket.rooms, in insertion order
  rooms,         \* registry: Map roomId -> Map socketId -> userData
  roomMetadata,  \* Map roomId -> [createdAt, createdBy]
  now,           \* the instant Date reads (one run is short: it does not advance)
  out,           \* the emissions of the last step, in order
  joinCount,     \* history: roomId -> successful joins since the room was created
  handled,       \* history: the number of events handled so far
  emptyRooms     \* the array the last cleanupEmptyRooms returned

vars == <<status, socketRooms, rooms, roomMetadata, now, out, joinCount, handled,
         emptyRooms>>

\* ---------------------------------------------------------------- transport
SeqToSet(s) == {s[i] : i \in 1..Len(s)}
SeqRemove(s, x) == SelectSeq(s, LAMBDA y : y # x)
SeqAdd(s, x) == IF x \in SeqToSet(s) THEN s ELSE Append(s, x)

\* the connected sockets grouped under g
InGroup(sr, g) == {c \in Conns : g \in SeqToSet(sr[c])}

SocketEmit(s, ev, data) == [ev |-> ev, to |-> {s}, data |-> data]
SocketToEmit(sr, s, g, ev, data) ==
  [ev |-> ev, to |-> InGroup(sr, g) \ InGroup(sr, s), data |-> data]
IoToEmit(sr, g, ev, data) == [ev |-> ev, to |-> InGroup(sr, g), data |-> data]

\* ------------------------------------------------------- handleUserLeaving
\* the handlers run to completion on a record of the mutable state
State == [rooms |-> rooms, roomMetadata |-> roomMetadata,
          socketRooms |-> socketRooms, out |-> <<>>]

SocketLeave(st, s, g) ==
  [st EXCEPT !.socketRooms[s] = SeqRemove(st.socketRooms[s], g)]

\* the join that never subscribes the socket to the group
SocketJoin_Forgotten(st, s, g) == st

SocketJoin(st, s, g) ==
  [st EXCEPT !.socketRooms[s] = SeqAdd(st.socketRooms[s], g)]

\* the leave without the clean-up branch: an emptied room stays registered
handleUserLeaving_KeepEmpty(st, s, roomId) ==
  IF MapHas(st.rooms, roomId) /\ MapHas(MapGet(st.rooms, roomId), s)
  THEN LET user == MapGet(MapGet(st.rooms, roomId), s)
           room == MapDelete(MapGet(st.rooms, roomId), s)
           rooms1 == MapSet(st.rooms, roomId, room)
           userLeft == SocketToEmit(st.socketRooms, s, roomId, "user-left",
                         [userId |-> s, username |-> user.username])
           st1 == IF MapSize(room) > 0
                  THEN [st EXCEPT !.rooms = rooms1,
                          !.out = st.out \o <<userLeft,
                            IoToEmit(st.socketRooms, roomId, "room-users",
                                     [users |-> getRoomUsers(rooms1, roomId)])>>]
                  ELSE [st EXCEPT !.rooms = rooms1,
                          !.out = st.out \o <<userLeft>>]
       IN SocketLeave(st1, s, roomId)
  ELSE st

handleUserLeaving(st, s, roomId) ==
  IF MapHas(st.rooms, roomId) /\ MapHas(MapGet(st.rooms, roomId), s)
  THEN LET user == MapGet(MapGet(st.rooms, roomId), s)
           room == MapDelete(MapGet(st.rooms, roomId), s)
           rooms1 == MapSet(st.rooms, roomId, room)
           userLeft == SocketToEmit(st.socketRooms, s, roomId, "user-left",
                         [userId |-> s, username |-> user.username])
           st1 == IF MapSize(room) > 0
                  THEN [st EXCEPT !.rooms = rooms1,
                          !.out = st.out \o <<userLeft,
                            IoToEmit(st.socketRooms, roomId, "room-users",
                                     [users |-> getRoomUsers(rooms1, roomId)])>>]
                  ELSE [st EXCEPT !.rooms = MapDelete(rooms1, roomId),
                          !.roomMetadata = MapDelete(st.roomMetadata, roomId),
                          !.out = st.out \o <<userLeft>>]
       IN SocketLeave(st1, s, roomId)
  ELSE st

\* ----------------------------------------------------------------- join-room
\* Array.from(socket.rooms).forEach: leave every group but the socket's own
RECURSIVE LeaveExisting(_, _, _)
LeaveExisting(st, s, list) ==
  IF list = <<>> THEN st
  ELSE LeaveExisting(
         IF Head(list) # s
         THEN handleUserLeaving(SocketLeave(st, s, Head(list)), s, Head(list))
         ELSE st,
         s, Tail(list))

\* the colour index read after the insertion instead of before it
ColorIndex_AfterInsert(room) == MapSize(room) + 1

ColorIndex(room) == MapSize(room)

\* the confirmation sent before the room-wide list
JoinEmissions_ConfirmFirst(sr, rs, s, roomId, userData) ==
  <<SocketEmit(s, "room-users", [users |-> getRoomUsers(rs, roomId)]),
    SocketToEmit(sr, s, roomId, "user-joined", userData),
    SocketEmit(s, "join-success",
               [roomId |-> roomId, userData |-> userData,
                userCount |-> MapSize(MapGet(rs, roomId))]),
    IoToEmit(sr, roomId, "room-users", [users |-> getRoomUsers(rs, roomId)])>>

JoinEmissions(sr, rs, s, roomId, userData) ==
  <<SocketEmit(s, "room-users", [users |-> getRoomUsers(rs, roomId)]),
    SocketToEmit(sr, s, roomId, "user-joined", userData),
    IoToEmit(sr, roomId, "room-users", [users |-> getRoomUsers(rs, roomId)]),
    SocketEmit(s, "join-success",
               [roomId |-> roomId, userData |-> userData,
                userCount |-> MapSize(MapGet(rs, roomId))])>>

\* the join that writes the metadata entry on every join, not on creation only
JoinValid_MetaEveryJoin(st0, s, roomId, username, userId) ==
  LET st1 == LeaveExisting(st0, s, st0.socketRooms[s])
      st2 == SocketJoin(st1, s, roomId)
      st3 == [st2 EXCEPT !.rooms = IF ~MapHas(st2.rooms, roomId)
                                   THEN MapSet(st2.rooms, roomId, <<>>)
                                   ELSE st2.rooms,
                !.roomMetadata = MapSet(st2.roomMetadata, roomId,
                                   [createdAt |-> now, createdBy |-> s])]
      room == MapGet(st3.rooms, roomId)
      colorIndex == ColorIndex(room)
      userData == [id |-> s,
                   username |-> sanitizeUsername(username, now),
                   userId |-> IF Truthy(userId) THEN userId.chars ELSE s,
                   color |-> getUserColor(colorIndex),
                   joinedAt |-> now]
      room1 == MapSet(room, s, userData)
      rooms1 == MapSet(st3.rooms, roomId, room1)
  IN [st3 EXCEPT !.rooms = rooms1,
        !.out = st3.out \o JoinEmissions(st3.socketRooms, rooms1, s, roomId, userData)]

JoinValid(st0, s, roomId, username, userId) ==
  LET st1 == LeaveExisting(st0, s, st0.socketRooms[s])
      st2 == SocketJoin(st1, s, roomId)
      st3 == IF ~MapHas(st2.rooms, roomId)
             THEN [st2 EXCEPT !.rooms = MapSet(st2.rooms, roomId, <<>>),
                     !.roomMetadata = MapSet(st2.roomMetadata, roomId,
                                        [createdAt |-> now, createdBy |-> s])]
             ELSE st2
      room == MapGet(st3.rooms, roomId)
      colorIndex == ColorIndex(room)
      userData == [id |-> s,
                   username |-> sanitizeUsername(username, now),
                   userId |-> IF Truthy(userId) THEN userId.chars ELSE s,
                   color |-> getUserColor(colorIndex),
                   joinedAt |-> now]
      room1 == MapSet(room, s, userData)
      rooms1 == MapSet(st3.rooms, roomId, room1)
  IN [st3 EXCEPT !.rooms = rooms1,
        !.out = st3.out \o JoinEmissions(st3.socketRooms, rooms1, s, roomId, userData)]

JoinRoomHandler(st0, s, roomId, username, userId) ==
  IF ~isValidRoomId(roomId)
  THEN [st0 EXCEPT !.out = <<SocketEmit(s, "error", [message |-> "Invalid room ID"])>>]
  ELSE JoinValid(st0, s, roomId.chars, username, userId)

\* ---------------------------------------------------------------- leave-room
\* the leave that takes the socket out of the group whether or not it is a member
LeaveRoomHandler_LeaveGroup(st0, s, roomId) ==
  SocketLeave(handleUserLeaving(st0, s, roomId.chars), s, roomId.chars)

LeaveRoomHandler(st0, s, roomId) == handleUserLeaving(st0, s, roomId.chars)

\* ---------------------------------------------------------------- disconnect
\* rooms.forEach: every registry room that holds the socket, in Map order
RECURSIVE LeaveEvery(_, _, _)
LeaveEvery(st, s, list) ==
  IF list = <<>> THEN st
  ELSE LeaveEvery(
         IF MapHas(st.rooms, Head(list)) /\ MapHas(MapGet(st.rooms, Head(list)), s)
         THEN handleUserLeaving(st, s, Head(list))
         ELSE st,
         s, Tail(list))

\* the transport empties socket.rooms before it fires 'disconnect'
DisconnectHandler(st0, s) ==
  LET st1 == [st0 EXCEPT !.socketRooms[s] = <<>>]
  IN LeaveEvery(st1, s, MapKeys(st1.rooms))

\* -------------------------------------------------------------------- relays
Broadcast(st0, s, roomId, ev, data) ==
  [st0 EXCEPT !.out = <<SocketToEmit(st0.socketRooms, s, roomId.chars, ev, data)>>]

CursorUpdateHandler(st0, s, roomId, position) ==
  IF roomId.type = "string" /\ MapHas(st0.rooms, roomId.chars)
     /\ MapHas(MapGet(st0.rooms, roomId.chars), s)
  THEN LET userData == MapGet(MapGet(st0.rooms, roomId.chars), s)
       IN Broadcast(st0, s, roomId, "cursor-update",
                    [userId |-> s, username |-> userData.username,
                     color |-> userData.color, position |-> position])
  ELSE st0

TypingHandler(st0, s, roomId, isTyping) ==
  IF roomId.type = "string" /\ MapHas(st0.rooms, roomId.chars)
     /\ MapHas(MapGet(st0.rooms, roomId.chars), s)
  THEN LET userData == MapGet(MapGet(st0.rooms, roomId.chars), s)
       IN Broadcast(st0, s, roomId, "user-typing",
                    [userId |-> s, username |-> userData.username,
                     isTyping |-> isTyping])
  ELSE st0

SendSyncHandler(st0, s, to, roomId, state) ==
  [st0 EXCEPT !.out = <<IoToEmit(st0.socketRooms, to.chars, "receive-sync",
                          [from |-> s, roomId |-> roomId, state |-> state])>>]

\* -------------------------------------------------------------------- inputs
R1 == <<"r", "1">>
Long(n) == [i \in 1..n |-> "a"]
BadRoom == <<"b", "a", "d", " ", "r", "o", "o", "m", "!">>
R2 == <<"r", "2">>
ValidRoomNames == {R1, R2, ConnId(1)}
RoomArgs == {Str(r) : r \in ValidRoomNames}
JoinRoomIds == RoomArgs \cup {Str(<<>>), Str(Long(RoomIdLimit)), Str(BadRoom), Undefined}
\* what each client sends as its identity: the second one sends none
UsernameOf(i) == IF i = 2 THEN Undefined
                 ELSE Str(<<" ", "<", "u">> \o DecStr(i) \o <<">", " ">>)
UserIdOf(i) == IF i = 2 THEN Undefined ELSE Str(<<"i", "d">> \o DecStr(i))
Payloads == {"p1"}
\* the rooms the relay events name: an ordinary id and a connection's id
RelayRooms == {Str(R1), Str(ConnId(1))}
\* the targets of send-sync: two connections, one of them also a room id, and
\* an ordinary room id
SyncTargets == {Str(ConnId(1)), Str(ConnId(2)), Str(R1)}

\* ---------------------------------------------------------------------- Init
Init ==
  /\ status = [c \in Conns |-> "new"]
  /\ socketRooms = [c \in Conns |-> <<>>]
  /\ rooms = <<>>
  /\ roomMetadata = <<>>
  /\ now = 0
  /\ out = <<>>
  /\ joinCount = <<>>
  /\ handled = 0
  /\ emptyRooms = <<>>

\* ------------------------------------------------------------------- actions
\* a membership event (join-room, leave-room, disconnect) is counted
Counted ==
  /\ handled < MaxEvents
  /\ handled' = handled + 1

\* a relay changes nothing but out, which no handler reads: a run is followed
\* up to its first relay
Relayed ==
  /\ handled <= MaxEvents
  /\ handled' = MaxEvents + 1

Commit(st) ==
  /\ out' = st.out
  /\ socketRooms' = st.socketRooms
  /\ rooms' = st.rooms
  /\ roomMetadata' = st.roomMetadata

\* the history of joins follows the registry: dropped with the room
Kept(jc, rs) == [i \in 1..Len(rs) |-> [k |-> rs[i].k, v |-> MapGet(jc, rs[i].k)]]

\* io.on('connection'): the socket starts in the group of its own id
Connect(c) ==
  /\ status[c] = "new"
  /\ status' = [status EXCEPT ![c] = "connected"]
  /\ socketRooms' = [socketRooms EXCEPT ![c] = <<c>>]
  /\ out' = <<>>
  /\ UNCHANGED <<rooms, roomMetadata, now, joinCount, handled, emptyRooms>>

JoinRoom(c, roomId, username, userId) ==
  /\ status[c] = "connected"
  /\ Counted
  /\ Commit(JoinRoomHandler(State, c, roomId, username, userId))
  /\ joinCount' =
       IF ~isValidRoomId(roomId) THEN joinCount
       ELSE LET left == LeaveExisting(State, c, socketRooms[c]).rooms
                before == IF MapHas(left, roomId.chars)
                          THEN MapGet(joinCount, roomId.chars) ELSE 0
            IN Kept(MapSet(joinCount, roomId.chars, before + 1), rooms')
  /\ UNCHANGED <<status, now, emptyRooms>>

LeaveRoom(c, roomId) ==
  /\ status[c] = "connected"
  /\ Counted
  /\ Commit(LeaveRoomHandler(State, c, roomId))
  /\ joinCount' = Kept(joinCount, rooms')
  /\ UNCHANGED <<status, now, emptyRooms>>

Disconnect(c) ==
  /\ status[c] = "connected"
  /\ status' = [status EXCEPT ![c] = "disconnected"]
  /\ Counted
  /\ Commit(DisconnectHandler(State, c))
  /\ joinCount' = Kept(joinCount, rooms')
  /\ UNCHANGED <<now, emptyRooms>>

YjsUpdate(c, roomId, update) ==
  /\ status[c] = "connected"
  /\ Relayed
  /\ Commit(Broadcast(State, c, roomId, "yjs-update", [update |-> update, from |-> c]))
  /\ UNCHANGED <<status, now, joinCount, emptyRooms>>

AwarenessUpdate(c, roomId, update) ==
  /\ status[c] = "connected"
  /\ Relayed
  /\ Commit(Broadcast(State, c, roomId, "awareness-update", [update |-> update, from |-> c]))
  /\ UNCHANGED <<status, now, joinCount, emptyRooms>>

CursorUpdate(c, roomId, position) ==
  /\ status[c] = "connected"
  /\ Relayed
  /\ Commit(CursorUpdateHandler(State, c, roomId, position))
  /\ UNCHANGED <<status, now, joinCount, emptyRooms>>

Typing(c, roomId, isTyping) ==
  /\ status[c] = "connected"
  /\ Relayed
  /\ Commit(TypingHandler(State, c, roomId, isTyping))
  /\ UNCHANGED <<status, now, joinCount, emptyRooms>>

RequestSync(c, roomId) ==
  /\ status[c] = "connected"
  /\ Relayed
  /\ Commit(Broadcast(State, c, roomId, "sync-requested", [from |-> c]))
  /\ UNCHANGED <<status, now, joinCount, emptyRooms>>

SendSync(c, to, roomId, state) ==
  /\ status[c] = "connected"
  /\ Relayed
  /\ Commit(SendSyncHandler(State, c, to, roomId, state))
  /\ UNCHANGED <<status, now, joinCount, emptyRooms>>

Next ==
  \/ \E c \in Conns : Connect(c)
  \/ \E i \in 1..MaxConns, roomId \in JoinRoomIds :
        JoinRoom(ConnId(i), roomId, UsernameOf(i), UserIdOf(i))
  \/ \E c \in Conns, roomId \in RoomArgs : LeaveRoom(c, roomId)
  \/ \E c \in Conns : Disconnect(c)

Relay ==
  \/ \E c \in Conns, roomId \in RelayRooms, update \in Payloads : YjsUpdate(c, roomId, update)
  \/ \E c \in Conns, roomId \in RelayRooms, update \in Payloads : AwarenessUpdate(c, roomId, update)
  \/ \E c \in Conns, roomId \in RelayRooms, position \in Payloads : CursorUpdate(c, roomId, position)
  \/ \E c \in Conns, roomId \in RelayRooms, isTyping \in BOOLEAN : Typing(c, roomId, isTyping)
  \/ \E c \in Conns, roomId \in RelayRooms : RequestSync(c, roomId)
  \/ \E c \in Conns, to \in SyncTargets, state \in Payloads :
        SendSync(c, to, Str(R1), state)

Spec == Init /\ [][Next]_vars

NextRelay == Next \/ Relay

SpecRelay == Init /\ [][NextRelay]_vars

\* ------------------------------------------------------- cleanupEmptyRooms
\* the sweep as a function of its two arguments: any registry over the room
\* ids, rooms of zero members included, and any metadata map over them
MaxMembers == 2
MaxSweeps == 2
AnyUser(i) == [id |-> ConnId(i), username |-> UsernameOf(1).chars, userId |-> ConnId(i),
               color |-> getUserColor(i - 1), joinedAt |-> 0]
MemberMaps == {[k \in 1..n |-> [k |-> ConnId(k), v |-> AnyUser(k)]] : n \in 0..MaxMembers}
\* the sequences without repetition over the set S
Orders(S) ==
  UNION {{q \in [1..n -> S] : \A a, b \in 1..n : q[a] = q[b] => a = b} :
           n \in 0..Cardinality(S)}
Registries ==
  UNION {{[k \in 1..Len(q) |-> [k |-> q[k], v |-> f[k]]] : f \in [1..Len(q) -> MemberMaps]} :
           q \in Orders(ValidRoomNames)}
MetadataOf(r) == [createdAt |-> 0, createdBy |-> ConnId(1)]
MetadataMaps ==
  {[k \in 1..Len(q) |-> [k |-> q[k], v |-> MetadataOf(q[k])]] : q \in Orders({R1, R2})}
    \cup {<<[k |-> R1, v |-> MetadataOf(R1)], [k |-> ConnId(1), v |-> MetadataOf(ConnId(1))],
            [k |-> R2, v |-> MetadataOf(R2)]>>}

InitCleanup ==
  /\ status = [c \in Conns |-> "new"]
  /\ socketRooms = [c \in Conns |-> <<>>]
  /\ rooms \in Registries
  /\ roomMetadata \in MetadataMaps
  /\ now = 0
  /\ out = <<>>
  /\ joinCount = <<>>
  /\ handled = 0
  /\ emptyRooms = <<>>

\* one run of the periodic sweep
Sweep ==
  /\ handled < MaxSweeps
  /\ handled' = handled + 1
  /\ LET r == cleanupEmptyRooms(rooms, roomMetadata)
     IN /\ rooms' = r.rooms
        /\ roomMetadata' = r.roomMetadata
        /\ emptyRooms' = r.emptyRooms
  /\ UNCHANGED <<status, socketRooms, now, out, joinCount>>

NextCleanup == Sweep

SpecCleanup == InitCleanup /\ [][NextCleanup]_vars

\* ==================================================================== claims
\* the registry rooms whose member map holds connection c
RoomsOf(rs, c) == {rs[i].k : i \in {j \in 1..Len(rs) : MapHas(rs[j].v, c)}}
\* the connections in the member map of room r (none when the room is absent)
Members(rs, r) == IF MapHas(rs, r) THEN SeqToSet(MapKeys(MapGet(rs, r))) ELSE {}
\* the step in which client i sends join-room for roomId
JoinStep(i, roomId) == JoinRoom(ConnId(i), roomId, UsernameOf(i), UserIdOf(i))
\* the same step, told first by what every join leaves behind (the joiner in
\* the member map, four emissions): the two tests follow from JoinStep and
\* spare its evaluation on the steps of the other handlers
Joined(i, roomId) ==
  /\ Len(out') >= 4
  /\ ConnId(i) \in Members(rooms', roomId.chars)
  /\ JoinStep(i, roomId)
\* every join is told so
JoinedIsJoinStep ==
  [][\A i \in 1..MaxConns, roomId \in RoomArgs :
       JoinStep(i, roomId) => Joined(i, roomId)]_vars
\* the emissions of the last step that reach connection c, in order
DeliveredTo(o, c) == SelectSeq(o, LAMBDA e : c \in e.to)

\* C1: a connection is in at most one registry room, the one it joined last:
\* no state has it in two rooms, a successful join-room leaves it in exactly
\* the room just joined, and no other step adds it to a room.
C1_SingleActiveRoom ==
  /\ [](\A c \in Conns : Cardinality(RoomsOf(rooms, c)) <= 1)
  /\ [][\A i \in 1..MaxConns :
         IF \E roomId \in RoomArgs : JoinStep(i, roomId)
         THEN \A roomId \in RoomArgs :
                JoinStep(i, roomId) => RoomsOf(rooms', ConnId(i)) = {roomId.chars}
         ELSE RoomsOf(rooms', ConnId(i)) \subseteq RoomsOf(rooms, ConnId(i))]_vars

\* C2: at rest every room of the registry has at least one member.
C2_NoEmptyRoom == \A i \in 1..Len(rooms) : MapSize(rooms[i].v) >= 1

\* a leave has just emptied and deleted a room while another room lives on
C2_Witness ==
  /\ Len(out) = 1 /\ out[1].ev = "user-left"
  /\ Len(rooms) >= 1
  /\ Len(roomMetadata) = Len(rooms)

\* the ids the validator must refuse, as the claim lists them
RefusedRoomId(roomId) ==
  \/ roomId.type # "string"
  \/ Len(roomId.chars) = 0
  \/ Len(roomId.chars) >= 100
  \/ \E k \in 1..Len(roomId.chars) : roomId.chars[k] \notin RoomIdChars

\* C3: a join-room with a refused roomId emits exactly one 'error', to the
\* sender only, and changes neither the registry, the metadata nor any
\* connection's groups.
C3_InvalidJoinRejected ==
  [][\A i \in 1..MaxConns, roomId \in JoinRoomIds :
       (RefusedRoomId(roomId) /\ JoinStep(i, roomId)) =>
         /\ out' = <<[ev |-> "error", to |-> {ConnId(i)},
                      data |-> [message |-> "Invalid room ID"]]>>
         /\ rooms' = rooms
         /\ roomMetadata' = roomMetadata
         /\ socketRooms' = socketRooms]_vars

\* a member of a room has just had a join-room refused and is still in its room
C3_Witness ==
  /\ Len(out) = 1 /\ out[1].ev = "error"
  /\ \E c \in out[1].to : RoomsOf(rooms, c) # {} /\ Len(socketRooms[c]) = 2

\* the member record of connection c in room r
Record(rs, r, c) == MapGet(MapGet(rs, r), c)
\* the names of the events of a sequence of emissions
EventsOf(o) == [k \in 1..Len(o) |-> o[k].ev]
\* the four emissions the join itself produced (after those of the implicit leave)
JoinPart(o) == SubSeq(o, Len(o) - 3, Len(o))
LeavePart(o) == SubSeq(o, 1, Len(o) - 4)
IsRosterEvent(e) == e.ev \in {"room-users", "join-success"}

\* C4: on a successful join-room the joiner is delivered a 'room-users' list
\* that contains it, then the room-wide 'room-users' list, then 'join-success'
\* as the last emission of the handler; both lists are the member list of the
\* room after the insertion, and userCount is the length of the list delivered
\* just before the confirmation.
C4_JoinOrder ==
  [][\A i \in 1..MaxConns, roomId \in RoomArgs :
       Joined(i, roomId) =>
         LET c == ConnId(i)
             d == DeliveredTo(out', c)
             n == Len(d)
             roster == SelectSeq(d, IsRosterEvent)
         IN /\ EventsOf(roster) = <<"room-users", "room-users", "join-success">>
            /\ d[n] = out'[Len(out')]
            /\ d[n].ev = "join-success"
            /\ d[n - 1].ev = "room-users"
            /\ \E k \in 1..Len(roster[1].data.users) : roster[1].data.users[k].id = c
            /\ roster[1].data.users = getRoomUsers(rooms', roomId.chars)
            /\ roster[2].data.users = getRoomUsers(rooms', roomId.chars)
            /\ d[n].data.userCount = Len(d[n - 1].data.users)]_vars

\* a connection has just left one room for another that already had a member
C4_Witness ==
  /\ Len(out) > 4
  /\ out[Len(out)].ev = "join-success"
  /\ out[Len(out)].data.userCount = 2

\* C5: a successful join-room of N to R, whose other members are M, delivers
\* 'user-joined' with N's record to exactly M, and one and the same
\* 'room-users' list of length |M|+1 to exactly M and N.
C5_JoinBroadcast ==
  [][\A i \in 1..MaxConns, roomId \in RoomArgs :
       JoinStep(i, roomId) =>
         LET N == ConnId(i)
             R == roomId.chars
             M == Members(rooms, R) \ {N}
             j == JoinPart(out')
         IN /\ EventsOf(j) = <<"room-users", "user-joined", "room-users", "join-success">>
            /\ j[2].to = M
            /\ j[2].data = Record(rooms', R, N)
            /\ j[1].to = {N}
            /\ j[3].to = M \cup {N}
            /\ j[1].data = j[3].data
            /\ Len(j[3].data.users) = Cardinality(M) + 1]_vars

\* the rooms the join-room of c leaves first: its groups other than its own id
\* in which it is a registry member
LeftByJoin(c) == {r \in RoomsOf(rooms, c) : r # c /\ r \in SeqToSet(socketRooms[c])}

\* C6: when L leaves R (leave-room, the implicit leave of join-room, or
\* disconnect) 'user-left' and the updated 'room-users' go to exactly the
\* members R has after the removal, and so not to L.
C6_LeaveBroadcast ==
  [][/\ \A c \in Conns, roomId \in RoomArgs :
          (LeaveRoom(c, roomId) /\ c \in Members(rooms, roomId.chars)) =>
            \A k \in 1..Len(out') : out'[k].to = Members(rooms', roomId.chars)
     /\ \A c \in Conns :
          (Disconnect(c) /\ Cardinality(RoomsOf(rooms, c)) = 1) =>
            \A k \in 1..Len(out') :
              \A r \in RoomsOf(rooms, c) : out'[k].to = Members(rooms, r) \ {c}
     /\ \A i \in 1..MaxConns, roomId \in RoomArgs :
          (JoinStep(i, roomId) /\ Cardinality(LeftByJoin(ConnId(i))) = 1) =>
            \A k \in 1..Len(LeavePart(out')) :
              \A r \in LeftByJoin(ConnId(i)) :
                out'[k].to = Members(rooms, r) \ {ConnId(i)}]_vars

\* the ordinal, counted from 0, of the join that has just been made to room r
Ordinal(jc, r) == MapGet(jc, r) - 1
\* the members room r holds when connection c is about to be inserted
SizeAtInsert(c, r) ==
  LET left == LeaveExisting(State, c, socketRooms[c]).rooms
  IN IF MapHas(left, r) THEN MapSize(MapGet(left, r)) ELSE 0
Palette(n) == USER_COLORS[(n % 12) + 1]

\* the room ids that are no connection's id
OrdinaryArgs == {Str(R1), Str(R2)}

\* C7 as claimed: the N-th join of a room incarnation gets palette[N mod 12]
\* (stated for the rooms whose id is no connection's id, where every re-join
\* goes through the implicit leave)
C7_NthJoinColor ==
  [][\A i \in 1..MaxConns, roomId \in OrdinaryArgs :
       JoinStep(i, roomId) =>
         Record(rooms', roomId.chars, ConnId(i)).color
           = Palette(Ordinal(joinCount', roomId.chars))]_vars

\* C7 as amended: the joiner gets palette[k mod 12] for k the number of members
\* the room holds when the joiner is inserted; k never exceeds the ordinal N
\* of the join, and the colour is palette[N mod 12] whenever k = N.
C7_ColorByMemberCount ==
  [][\A i \in 1..MaxConns, roomId \in RoomArgs :
       Joined(i, roomId) =>
         LET k == SizeAtInsert(ConnId(i), roomId.chars)
             N == Ordinal(joinCount', roomId.chars)
             color == Record(rooms', roomId.chars, ConnId(i)).color
         IN /\ color = Palette(k)
            /\ k <= N
            /\ (k = N => color = Palette(N))]_vars

\* a join to a room from which an earlier joiner has gone: fewer members than joins
C7_Witness ==
  /\ out # <<>> /\ out[Len(out)].ev = "join-success"
  /\ LET R == out[Len(out)].data.roomId
     IN /\ R \in {R1, R2}
        /\ MapGet(joinCount, R) = 3
        /\ MapSize(MapGet(rooms, R)) = 2
        /\ out[Len(out)].data.userData.color = Palette(1)

\* the step removes c from room r: leave-room, disconnect, or the implicit
\* leave of a join-room of c
Removes(c, r) ==
  \/ LeaveRoom(c, Str(r))
  \/ Disconnect(c)
  \/ /\ r \in LeftByJoin(c)
     /\ \E i \in 1..MaxConns, roomId \in RoomArgs : ConnId(i) = c /\ JoinStep(i, roomId)

\* C8: a member's colour is palette[k mod 12] for k the members of the room
\* just before its insertion, and it stays the same until the member leaves.
C8_ColorFixed ==
  [][/\ \A i \in 1..MaxConns, roomId \in RoomArgs :
          JoinStep(i, roomId) =>
            Record(rooms', roomId.chars, ConnId(i)).color
              = Palette(SizeAtInsert(ConnId(i), roomId.chars))
     /\ \A c \in Conns, r \in ValidRoomNames :
          (c \in Members(rooms, r) /\ c \in Members(rooms', r) /\ ~Removes(c, r)) =>
            Record(rooms', r, c).color = Record(rooms, r, c).color]_vars

\* C9: 'cursor-update' and 'typing' are forwarded only for a sender that is a
\* registry member of roomId, with the username and colour of its stored
\* record and never to the sender itself; for any other sender nothing is
\* emitted; in both cases no state changes.
C9_MemberGatedRelay ==
  [][/\ \A c \in Conns, roomId \in RelayRooms, position \in Payloads :
          CursorUpdate(c, roomId, position) =>
            /\ IF c \in Members(rooms, roomId.chars)
               THEN /\ Len(out') = 1
                    /\ out'[1].ev = "cursor-update"
                    /\ out'[1].data =
                         [userId |-> c,
                          username |-> Record(rooms, roomId.chars, c).username,
                          color |-> Record(rooms, roomId.chars, c).color,
                          position |-> position]
                    /\ c \notin out'[1].to
               ELSE out' = <<>>
            /\ UNCHANGED <<rooms, roomMetadata, socketRooms>>
     /\ \A c \in Conns, roomId \in RelayRooms, isTyping \in BOOLEAN :
          Typing(c, roomId, isTyping) =>
            /\ IF c \in Members(rooms, roomId.chars)
               THEN /\ Len(out') = 1
                    /\ out'[1].ev = "user-typing"
                    /\ out'[1].data =
                         [userId |-> c,
                          username |-> Record(rooms, roomId.chars, c).username,
                          isTyping |-> isTyping]
                    /\ c \notin out'[1].to
               ELSE out' = <<>>
            /\ UNCHANGED <<rooms, roomMetadata, socketRooms>>]_vars

\* C10: 'send-sync' {to, roomId, state} from X delivers 'receive-sync'
\* {from: X, roomId, state} to the connected connection whose id is `to`, and
\* to no other connection.
C10_UnicastSync ==
  [][\A c \in Conns, to \in SyncTargets, state \in Payloads :
       SendSync(c, to, Str(R1), state) =>
         /\ Len(out') = 1
         /\ out'[1].ev = "receive-sync"
         /\ out'[1].data = [from |-> c, roomId |-> Str(R1), state |-> state]
         /\ out'[1].to = {t \in Conns : t = to.chars /\ status[t] = "connected"}]_vars

\* C11: 'yjs-update', 'awareness-update' and 'request-sync' naming roomId and
\* sent by X are delivered, payload unchanged and from = X, to exactly the
\* registry members of roomId other than X, whatever roomId is and whether or
\* not X is a member.
C11_RelayToMembers ==
  [][/\ \A c \in Conns, roomId \in RelayRooms, update \in Payloads :
          YjsUpdate(c, roomId, update) =>
            /\ Len(out') = 1
            /\ out'[1].ev = "yjs-update"
            /\ out'[1].data = [update |-> update, from |-> c]
            /\ out'[1].to = Members(rooms, roomId.chars) \ {c}
     /\ \A c \in Conns, roomId \in RelayRooms, update \in Payloads :
          AwarenessUpdate(c, roomId, update) =>
            /\ Len(out') = 1
            /\ out'[1].ev = "awareness-update"
            /\ out'[1].data = [update |-> update, from |-> c]
            /\ out'[1].to = Members(rooms, roomId.chars) \ {c}
     /\ \A c \in Conns, roomId \in RelayRooms :
          RequestSync(c, roomId) =>
            /\ Len(out') = 1
            /\ out'[1].ev = "sync-requested"
            /\ out'[1].data = [from |-> c]
            /\ out'[1].to = Members(rooms, roomId.chars) \ {c}]_vars

\* the list names connection c
Lists(users, c) == \E k \in 1..Len(users) : users[k].id = c
\* connection m is delivered 'user-left' for c and, next, the member list of
\* room r as it is after the step, without c
ToldLeft(o, m, c, r) ==
  LET d == DeliveredTo(o, m)
  IN \E k \in 1..(Len(d) - 1) :
       /\ d[k].ev = "user-left"
       /\ d[k].data.userId = c
       /\ d[k + 1].ev = "room-users"
       /\ d[k + 1].data.users = getRoomUsers(rooms', r)
       /\ ~Lists(d[k + 1].data.users, c)

\* C12: after the disconnect of X, X is a member of no room; a room its
\* removal emptied is gone from the registry and the metadata; in a room that
\* keeps members, each of them was delivered 'user-left' for X followed by a
\* 'room-users' list without X.
C12_DisconnectLeavesAll ==
  [][\A c \in Conns :
       Disconnect(c) =>
         /\ RoomsOf(rooms', c) = {}
         /\ \A r \in RoomsOf(rooms, c) :
              IF Members(rooms, r) = {c}
              THEN ~MapHas(rooms', r) /\ ~MapHas(roomMetadata', r)
              ELSE /\ Members(rooms', r) = Members(rooms, r) \ {c}
                   /\ \A m \in Members(rooms', r) : ToldLeft(out', m, c, r)]_vars

\* among the emissions o, connection m is delivered 'user-left' for c and,
\* next, a 'room-users' list without c
ToldGone(o, m, c) ==
  LET d == DeliveredTo(o, m)
  IN \E k \in 1..(Len(d) - 1) :
       /\ d[k].ev = "user-left"
       /\ d[k].data.userId = c
       /\ d[k + 1].ev = "room-users"
       /\ ~Lists(d[k + 1].data.users, c)

\* what the claim of C13 says of the join-room of X to R for a room Q that
\* holds X before the step
LeftBeforeJoin(X, R, Q) ==
  /\ EventsOf(JoinPart(out')) = <<"room-users", "user-joined", "room-users", "join-success">>
  /\ \A k \in 1..Len(LeavePart(out')) : out'[k].ev \in {"user-left", "room-users"}
  /\ \A m \in Members(rooms, Q) \ {X} : ToldGone(LeavePart(out'), m, X)
  /\ IF Q # R
     THEN /\ Members(rooms', Q) = Members(rooms, Q) \ {X}
          /\ MapHas(roomMetadata', Q) <=> Members(rooms, Q) # {X}
     ELSE /\ Members(rooms', R) = Members(rooms, R)
          /\ MapKeys(MapGet(rooms', R))[MapSize(MapGet(rooms', R))] = X
          /\ Members(rooms, R) = {X} =>
               /\ MapGet(joinCount', R) = 1
               /\ MapGet(roomMetadata', R) = [createdAt |-> now, createdBy |-> X]

\* C13: a valid join-room of X to R removes X from every room Q it is in
\* (Q = R included) before it inserts X into R: the members that stay in Q are
\* delivered 'user-left' for X and then a 'room-users' list without X, Q and
\* its metadata are deleted when X was its last member, the emissions of the
\* join come after those of the leave, and a room X held alone and joins
\* again is a fresh incarnation with X as its only member.
C13_LeaveBeforeJoin ==
  [][\A i \in 1..MaxConns, roomId \in RoomArgs :
       Joined(i, roomId) =>
         \A Q \in RoomsOf(rooms, ConnId(i)) :
           LeftBeforeJoin(ConnId(i), roomId.chars, Q)]_vars

\* the join-room of client i starts an incarnation of room r: the room is
\* absent once the joiner's implicit leave is done
Creates(i, r) ==
  /\ Len(out') >= 4
  /\ Joined(i, Str(r))
  /\ SizeAtInsert(ConnId(i), r) = 0

\* C14: the metadata map has an entry for exactly the rooms of the registry;
\* the join-room that starts an incarnation of a room writes a fresh entry
\* with the joiner as createdBy, and no join, leave, disconnect or relay
\* changes the entry of a room while its incarnation lasts.
C14_MetadataLifetime ==
  /\ [](SeqToSet(MapKeys(roomMetadata)) = SeqToSet(MapKeys(rooms)))
  /\ [][/\ \A r \in ValidRoomNames, i \in 1..MaxConns :
             Creates(i, r) =>
               MapGet(roomMetadata', r) = [createdAt |-> now, createdBy |-> ConnId(i)]
        /\ roomMetadata' # roomMetadata =>
             \A r \in ValidRoomNames :
               (MapHas(rooms, r) /\ MapHas(rooms', r)
                  /\ ~\E i \in 1..MaxConns : Creates(i, r)) =>
                 MapGet(roomMetadata', r) = MapGet(roomMetadata, r)]_vars

\* a room outlives its creator: a later joiner is in it, the creator is not
C14_Witness ==
  \E k \in 1..Len(roomMetadata) :
    /\ Members(rooms, roomMetadata[k].k) # {}
    /\ roomMetadata[k].v.createdBy \notin Members(rooms, roomMetadata[k].k)

\* the member map and the metadata entry of room r (none when absent)
RoomView(rs, md, r) ==
  [members |-> IF MapHas(rs, r) THEN <<MapGet(rs, r)>> ELSE <<>>,
   meta |-> IF MapHas(md, r) THEN <<MapGet(md, r)>> ELSE <<>>]
\* the rooms whose member map or metadata the step changes
Changed ==
  IF rooms' = rooms /\ roomMetadata' = roomMetadata THEN {}
  ELSE {r \in ValidRoomNames :
          RoomView(rooms, roomMetadata, r) # RoomView(rooms', roomMetadata', r)}

\* C15 as claimed: every inbound event changes the member map or metadata of
\* at most one room.
C15_OneRoomPerEvent == [][Cardinality(Changed) <= 1]_vars

\* C15 as amended: a relay changes no room; a leave-room changes at most the
\* room it names; a disconnect changes exactly the rooms the connection is a
\* member of; a join-room changes at most the room joined and the rooms its
\* implicit leave takes the joiner out of; no event changes more than two
\* rooms.
C15_FrameBySender ==
  [][/\ Cardinality(Changed) <= 2
     /\ Changed # {} =>
          \/ \E c \in Conns, roomId \in RoomArgs :
               LeaveRoom(c, roomId) /\ Changed = {roomId.chars}
          \/ \E c \in Conns :
               Disconnect(c) /\ Changed = RoomsOf(rooms, c)
          \/ \E i \in 1..MaxConns, roomId \in RoomArgs :
               /\ Joined(i, roomId)
               /\ Changed \subseteq LeftByJoin(ConnId(i)) \cup {roomId.chars}]_vars

\* a join has just taken its sender out of one room, which keeps a member,
\* and into another
C15_Witness ==
  /\ Len(out) = 6
  /\ out[1].ev = "user-left" /\ out[2].ev = "room-users"
  /\ out[6].ev = "join-success"
  /\ out[2].to # {}
  /\ out[2].to \cap Members(rooms, out[6].data.roomId) = {}

\* the member records of room r of registry rs, in insertion order (none when
\* the room is absent)
MemberList(rs, r) ==
  IF MapHas(rs, r) THEN [k \in 1..Len(MapGet(rs, r)) |-> MapGet(rs, r)[k].v] ELSE <<>>
\* the same list once connection c is removed
ListWithout(rs, r, c) == SelectSeq(MemberList(rs, r), LAMBDA u : u.id # c)
\* the lists carried by the 'room-users' emissions of o
RoomUsersLists(o) == {o[k].data.users : k \in {j \in 1..Len(o) : o[j].ev = "room-users"}}

\* C16: with the handlers of all connections interleaved, every 'room-users'
\* list emitted by a join or a leave is the member list of its room right
\* after the handler's own insertion or removal: with the joiner, without the
\* leaver.
C16_RosterAfterMutation ==
  [][/\ \A i \in 1..MaxConns, roomId \in RoomArgs :
          Joined(i, roomId) =>
            LET X == ConnId(i)
                R == roomId.chars
            IN /\ RoomUsersLists(JoinPart(out')) = {MemberList(rooms', R)}
               /\ Lists(MemberList(rooms', R), X)
               /\ RoomUsersLists(LeavePart(out')) =
                    {ListWithout(rooms, Q, X) :
                       Q \in {q \in LeftByJoin(X) : Members(rooms, q) # {X}}}
     /\ \A c \in Conns, roomId \in RoomArgs :
          LeaveRoom(c, roomId) =>
            /\ RoomUsersLists(out') \subseteq {ListWithout(rooms, roomId.chars, c)}
            /\ \A l \in RoomUsersLists(out') :
                 l = MemberList(rooms', roomId.chars) /\ ~Lists(l, c)
     /\ \A c \in Conns :
          Disconnect(c) =>
            /\ RoomUsersLists(out') =
                 {MemberList(rooms', Q) :
                    Q \in {q \in RoomsOf(rooms, c) : Members(rooms, q) # {c}}}
            /\ \A l \in RoomUsersLists(out') : ~Lists(l, c)]_vars

\* a member has just joined again a room it shares with another member: the
\* list of the leave is one shorter than the lists of the join
C16_Witness ==
  /\ Len(out) = 6
  /\ out[2].ev = "room-users" /\ out[3].ev = "room-users"
  /\ out[6].ev = "join-success"
  /\ out[2].to # {}
  /\ out[2].to \subseteq Members(rooms, out[6].data.roomId)
  /\ Len(out[3].data.users) = Len(out[2].data.users) + 1

\* the ids of the rooms of registry rs that have no member
EmptyIds(rs) == {rs[k].k : k \in {j \in 1..Len(rs) : MapSize(rs[j].v) = 0}}

\* C17: cleanupEmptyRooms deletes from both maps exactly the rooms of zero
\* members, returns exactly the ids it deleted, and leaves every other room
\* and metadata entry as it was; run a second time it deletes nothing and
\* returns an empty array.
C17_SweepExactlyEmpty ==
  [][Sweep =>
       /\ rooms' = SelectSeq(rooms, LAMBDA e : MapSize(e.v) # 0)
       /\ roomMetadata' = SelectSeq(roomMetadata, LAMBDA e : e.k \notin EmptyIds(rooms))
       /\ SeqToSet(emptyRooms') = EmptyIds(rooms)
       /\ Len(emptyRooms') = Cardinality(EmptyIds(rooms))
       /\ handled >= 1 =>
            /\ rooms' = rooms
            /\ roomMetadata' = roomMetadata
            /\ emptyRooms' = <<>>]_vars

\* a sweep has just deleted two empty rooms, one of which had a metadata
\* entry, and kept a room that has members and its entry
C17_Witness ==
  /\ handled = 1
  /\ Len(emptyRooms) = 2
  /\ Len(rooms) = 1 /\ MapSize(rooms[1].v) > 0
  /\ Len(roomMetadata) = 1 /\ roomMetadata[1].k = rooms[1].k

\* C18: a leave-room for a room the sender is not a member of (absent, or
\* present without the sender) changes neither the registry, the metadata nor
\* any connection's groups, and emits nothing.
C18_LeaveByNonMember ==
  [][\A c \in Conns, roomId \in RoomArgs :
       (c \notin Members(rooms, roomId.chars) /\ LeaveRoom(c, roomId)) =>
         /\ out' = <<>>
         /\ rooms' = rooms
         /\ roomMetadata' = roomMetadata
         /\ socketRooms' = socketRooms]_vars

\* the one connection there is has just sent a leave-room for a room that
\* does not exist
C18_Witness ==
  /\ handled = 1
  /\ out = <<>>
  /\ rooms = <<>>
  /\ Cardinality({c \in Conns : status[c] = "connected"}) = 1
  /\ \A c \in Conns : status[c] # "disconnected"

\* C19: at rest the groups of a connection other than the group of its own id
\* are exactly the rooms of which it is a registry member, its own id set
\* aside.
C19_GroupsMatchRegistry ==
  \A c \in Conns :
    SeqToSet(socketRooms[c]) \ {c} = RoomsOf(rooms, c) \ {c}

\* a connection has just left, by leave-room, a room that keeps a member: it
\* is in no room and in no group but its own, the member that stays is in both
C19_Witness ==
  /\ Len(out) = 2
  /\ out[1].ev = "user-left" /\ out[2].ev = "room-users"
  /\ \E c \in Conns :
       /\ out[1].data.userId = c
       /\ status[c] = "connected"
       /\ RoomsOf(rooms, c) = {}
       /\ socketRooms[c] = <<c>>
  /\ \E m \in out[2].to : RoomsOf(rooms, m) \ {m} # {}

====
